---- MODULE Spec2Model ----
(***************************************************************************)
(* Display synchronisation and playback engine of IsoDisplay.              *)
(*                                                                         *)
(* DisplayPlayer (src/unnamed/part_000) is a React function component.     *)
(* Its useState cells are the variables below; they hold the values of the *)
(* last committed render.  A setter call does not change them: it is put   *)
(* in `queue` and takes effect at the next Render.  The passive effects of *)
(* a commit (useEffect bodies whose dependencies changed) run later, in    *)
(* FlushEffects, with the values of that commit (their closure) and before *)
(* the next Render.  Refs (timerRef, hasInitialized) and the playlist      *)
(* cache are written at once.  A timer callback runs with the closure of   *)
(* the render whose effect armed it.                                       *)
(*                                                                         *)
(* useDisplayWebSocket and playlistCache are used by the component but     *)
(* their code is not part of the sources: lastMessage is taken to stay     *)
(* the last message received, and the cache to be one slot per display     *)
(* that returns what cachePlaylist stored.                                 *)
(***************************************************************************)
EXTENDS Integers, Sequences, FiniteSets, TLC

\* ------------------------------------------------------------- bounds
\* number of items of the longest playlist
MaxItems == 3
\* `previous` on an empty playlist counts the index down without end; the
\* model stops flushing effects once the index is this far below zero
MaxBelow == 2

\* ------------------------------------------------------------- data
ThisDisplay == "d1"
OtherDisplay == "d2"

Item(i, d) ==
    [id |-> i, contentId |-> 10 + i, order |-> i, duration |-> d,
     transition |-> "fade", transitionDuration |-> 1]

\* null / undefined item
NoItem ==
    [id |-> 0, contentId |-> 0, order |-> 0, duration |-> 0,
     transition |-> "none", transitionDuration |-> 0]

\* null / undefined playlist
NoPlaylist == [id |-> 0, hasItems |-> FALSE, items |-> <<>>]

Playlist(pid, its) == [id |-> pid, hasItems |-> TRUE, items |-> its]

BaseItems(n) == [i \in 1..n |-> Item(i, 5)]

\* the playlists the server can deliver
PlFull == Playlist(1, BaseItems(MaxItems))
PlShort == Playlist(1, BaseItems(MaxItems - 1))
PlEdited == Playlist(1, [BaseItems(MaxItems) EXCEPT ![2] = Item(2, 7)])
PlSingle == Playlist(2, <<Item(9, 5)>>)
PlMissing == [id |-> 2, hasItems |-> FALSE, items |-> <<>>]
\* a playlist whose first item has a dwell duration of 0 seconds
PlZero == Playlist(2, <<Item(5, 0), Item(6, 5)>>)

Catalog == {PlFull, PlShort, PlEdited, PlSingle, PlMissing, PlZero}

\* items[k] with JavaScript's 0-based index; undefined outside the array
At(its, k) == IF k >= 0 /\ k < Len(its) THEN its[k + 1] ELSE NoItem

\* ------------------------------------------------------------- state
VARIABLES
    mounted,          \* a DisplayPlayer instance is on the page
    initialPlaylist,  \* prop `playlist` of DisplayPlayer
    playlist,         \* useState: held playlist
    currentIndex,     \* useState
    isPlaying,        \* useState
    currentItem,      \* useState
    nextItem,         \* useState
    hasInitialized,   \* useRef
    timer,            \* timerRef: the armed timeout and its callback's closure
    lastMessage,      \* useDisplayWebSocket: last message received
    wsStatus,         \* useDisplayWebSocket: connection status
    cache,            \* playlistCache slot of this display
    queue,            \* state updates waiting for the next render
    pendingEffects,   \* effects of the last commit not yet run
    fired,            \* what the last step's timer callback was, if any
    crashed,          \* the first render threw and the error boundary took over
    sent,             \* status updates and view records the last step sent
    \* DisplayViewerPage (src/src/app/display/[url]/page.tsx)
    page,             \* useState: display, playlist, loading, error
    inflight,         \* fetchDisplay calls that wait for their response
    deferred,         \* setTimeout(..., 0) callbacks of onPlaylistUpdate
    reloadPending,    \* setTimeout(() => window.location.reload(), 100)
    pageEvent,        \* the response or event the page handled last
    \* one call of the reconcile decision
    rc,
    \* TransitionContainer (renderers/OptimizedImageRenderer.tsx, second part)
    tc,               \* its props, its useState values, its pending effect
    \* OptimizedImageRenderer (renderers/OptimizedImageRenderer.tsx)
    img,              \* its useState values, its loads and retry timeouts
    \* module state of renderers/OptimizedImageRenderer.tsx
    pre               \* imageCache, loadingPromises and the loads under way

playerVars == <<mounted, initialPlaylist, playlist, currentIndex, isPlaying,
                currentItem, nextItem, hasInitialized, timer, lastMessage,
                wsStatus, cache, queue, pendingEffects, fired, crashed, sent>>

pageVars == <<page, inflight, deferred, reloadPending, pageEvent>>

rendererVars == <<tc, img, pre>>

vars == <<playerVars, pageVars, rc, rendererVars>>

NoTimer == [armed |-> FALSE, idx |-> 0, playlist |-> NoPlaylist,
            playing |-> FALSE, item |-> NoItem, superseded |-> FALSE]

NoMessage == [type |-> "none", to |-> "none", action |-> "none", value |-> 0,
              playlist |-> NoPlaylist]

\* no call of applyPlaylist on its own has been made
NoCall ==
    [done |-> FALSE, held |-> NoPlaylist, init |-> FALSE,
     candidate |-> NoPlaylist, force |-> FALSE, apply |-> FALSE,
     before |-> NoPlaylist, wasInit |-> FALSE]

EmptyQueue ==
    [playlist |-> {}, idx |-> {}, playing |-> {}, item |-> {}, next |-> {},
     prop |-> {}, msg |-> {}, ws |-> {}, itemsNew |-> FALSE]

\* the values a render closes over
Closure ==
    [playlist |-> playlist, idx |-> currentIndex, playing |-> isPlaying,
     item |-> currentItem, next |-> nextItem, prop |-> initialPlaylist,
     msg |-> lastMessage, ws |-> wsStatus]

\* ------------------------------------------------------------- functions
\* a display_control message without a numeric value (typeof value !== 'number')
Undefined == -99

\* what sendStatusUpdate and trackView hand to the outside
Status(state, index) ==
    [kind |-> "status", state |-> state, index |-> index, contentId |-> 0,
     completed |-> FALSE, skipped |-> FALSE]

View(item, completed, skipped) ==
    [kind |-> "view", state |-> "none", index |-> 0, contentId |-> item.contentId,
     completed |-> completed, skipped |-> skipped]

sendStatusUpdate(x, state, index) ==
    [x EXCEPT !.out = Append(@, Status(state, index))]

\* isPlaying ? 'playing' : 'paused'
PlayState(playing) == IF playing THEN "playing" ELSE "paused"

trackView(c, x, completed, skipped) ==
    IF c.item = NoItem \/ c.playlist = NoPlaylist THEN x
    ELSE [x EXCEPT !.out = Append(@, View(c.item, completed, skipped))]

\* a.items || []
ItemsOf(p) == IF p.hasItems THEN p.items ELSE <<>>

\* compares the two objects themselves: a delivered candidate is never the
\* held object
playlistsEqualByReference(a, b) == FALSE

\* leaves the duration out of the comparison
playlistsEqualNoDuration(a, b) ==
    IF a = NoPlaylist \/ b = NoPlaylist THEN FALSE
    ELSE IF a.id # b.id THEN FALSE
    ELSE IF Len(ItemsOf(a)) # Len(ItemsOf(b)) THEN FALSE
    ELSE \A i \in 1..Len(ItemsOf(a)) :
            /\ ItemsOf(a)[i].id = ItemsOf(b)[i].id
            /\ ItemsOf(a)[i].contentId = ItemsOf(b)[i].contentId
            /\ ItemsOf(a)[i].order = ItemsOf(b)[i].order
            /\ ItemsOf(a)[i].transition = ItemsOf(b)[i].transition
            /\ ItemsOf(a)[i].transitionDuration = ItemsOf(b)[i].transitionDuration

playlistsEqual(a, b) ==
    IF a = NoPlaylist \/ b = NoPlaylist THEN FALSE
    ELSE IF a.id # b.id THEN FALSE
    ELSE IF Len(ItemsOf(a)) # Len(ItemsOf(b)) THEN FALSE
    ELSE \A i \in 1..Len(ItemsOf(a)) :
            /\ ItemsOf(a)[i].id = ItemsOf(b)[i].id
            /\ ItemsOf(a)[i].contentId = ItemsOf(b)[i].contentId
            /\ ItemsOf(a)[i].order = ItemsOf(b)[i].order
            /\ ItemsOf(a)[i].duration = ItemsOf(b)[i].duration
            /\ ItemsOf(a)[i].transition = ItemsOf(b)[i].transition
            /\ ItemsOf(a)[i].transitionDuration = ItemsOf(b)[i].transitionDuration

\* { ...nextPlaylist, items: nextPlaylist.items || [] }
Normalize(p) == [id |-> p.id, hasItems |-> TRUE, items |-> ItemsOf(p)]

\* x is the part of the world a callback can write while it runs:
\* [q: queued setter calls, timer, cache, init: hasInitialized,
\*  moved: a transition was issued in this flush,
\*  out: status updates and view records sent]
\* applies without writing the cache
applyPlaylistNoCache(c, x, nextPlaylist, force) ==
    IF nextPlaylist = NoPlaylist THEN x
    ELSE LET norm == Normalize(nextPlaylist) IN
         IF ~force /\ x.init /\ playlistsEqual(norm, c.playlist) THEN x
         ELSE [x EXCEPT
                 !.q = [@ EXCEPT !.playlist = {norm},
                                 !.idx = {0},
                                 !.item = {At(norm.items, 0)},
                                 !.next = {At(norm.items, 1)},
                                 !.itemsNew = @ \/ x.init \/ ~nextPlaylist.hasItems],
                 !.timer = NoTimer,
                 !.init = TRUE,
                 !.moved = TRUE]

applyPlaylist(c, x, nextPlaylist, force) ==
    IF nextPlaylist = NoPlaylist THEN x
    ELSE LET norm == Normalize(nextPlaylist) IN
         IF ~force /\ x.init /\ playlistsEqual(norm, c.playlist) THEN x
         ELSE [x EXCEPT
                 !.q = [@ EXCEPT !.playlist = {norm},
                                 !.idx = {0},
                                 !.item = {At(norm.items, 0)},
                                 !.next = {At(norm.items, 1)},
                                 \* the items array is the held one only when the
                                 \* held playlist object itself is applied
                                 !.itemsNew = @ \/ x.init \/ ~nextPlaylist.hasItems],
                 !.timer = NoTimer,
                 !.cache = norm,
                 !.init = TRUE,
                 !.moved = TRUE]

\* advances without wrapping around
moveToNextItemNoWrap(c, x) ==
    IF c.playlist = NoPlaylist \/ Len(c.playlist.items) = 0 THEN x
    ELSE IF Len(c.playlist.items) = 1 THEN x
    ELSE LET nextIndex == c.idx + 1
             followingIndex == (nextIndex + 1) % Len(c.playlist.items)
             y == trackView(c, x, TRUE, FALSE)
         IN sendStatusUpdate(
              [y EXCEPT
                 !.q = [@ EXCEPT !.idx = {nextIndex},
                                 !.item = {At(c.playlist.items, nextIndex)},
                                 !.next = {At(c.playlist.items, followingIndex)}],
                 !.moved = TRUE],
              PlayState(c.playing), nextIndex)

moveToNextItem(c, x) ==
    IF c.playlist = NoPlaylist \/ Len(c.playlist.items) = 0 THEN x
    ELSE IF Len(c.playlist.items) = 1 THEN x
    ELSE LET nextIndex == (c.idx + 1) % Len(c.playlist.items)
             followingIndex == (nextIndex + 1) % Len(c.playlist.items)
             y == trackView(c, x, TRUE, FALSE)
         IN sendStatusUpdate(
              [y EXCEPT
                 !.q = [@ EXCEPT !.idx = {nextIndex},
                                 !.item = {At(c.playlist.items, nextIndex)},
                                 !.next = {At(c.playlist.items, followingIndex)}],
                 !.moved = TRUE],
              PlayState(c.playing), nextIndex)

\* accepts every index that is not negative
seekNoUpperBound(c, x, value) ==
    IF value # Undefined /\ value >= 0
    THEN sendStatusUpdate(
           [x EXCEPT !.q = [@ EXCEPT !.idx = {value},
                                     !.item = {At(c.playlist.items, value)}],
                     !.moved = TRUE],
           PlayState(c.playing), value)
    ELSE x

\* case 'seek' of handleRemoteControl
seek(c, x, value) ==
    IF value # Undefined /\ value >= 0 /\ value < Len(c.playlist.items)
    THEN sendStatusUpdate(
           [x EXCEPT !.q = [@ EXCEPT !.idx = {value},
                                     !.item = {At(c.playlist.items, value)}],
                     !.moved = TRUE],
           PlayState(c.playing), value)
    ELSE x

\* pauses like stop: back to the first item
pauseResetsIndex(c, x) ==
    sendStatusUpdate(
      [x EXCEPT !.q = [@ EXCEPT !.playing = {FALSE},
                                !.idx = {0},
                                !.item = {At(c.playlist.items, 0)}]],
      "paused", 0)

\* case 'pause' of handleRemoteControl
pause(c, x) ==
    sendStatusUpdate([x EXCEPT !.q = [@ EXCEPT !.playing = {FALSE}]],
                     "paused", c.idx)

\* treats an action it does not know as stop
handleRemoteControlDefaultStops(c, x, action, value) ==
    CASE action = "play" ->
           sendStatusUpdate([x EXCEPT !.q = [@ EXCEPT !.playing = {TRUE}]],
                            "playing", c.idx)
      [] action = "pause" -> pause(c, x)
      [] action = "stop" ->
           sendStatusUpdate(
             [x EXCEPT !.q = [@ EXCEPT !.playing = {FALSE},
                                       !.idx = {0},
                                       !.item = {At(c.playlist.items, 0)}],
                       !.moved = TRUE],
             "paused", 0)
      [] action = "restart" ->
           sendStatusUpdate(
             [x EXCEPT !.q = [@ EXCEPT !.idx = {0},
                                       !.item = {At(c.playlist.items, 0)},
                                       !.playing = {TRUE}],
                       !.moved = TRUE],
             "playing", 0)
      [] action = "next" -> moveToNextItem(c, trackView(c, x, FALSE, TRUE))
      [] action = "previous" ->
           LET prevIndex == IF c.idx = 0 THEN Len(c.playlist.items) - 1
                            ELSE c.idx - 1
               y == trackView(c, x, FALSE, TRUE)
           IN sendStatusUpdate(
                [y EXCEPT !.q = [@ EXCEPT !.idx = {prevIndex},
                                          !.item = {At(c.playlist.items, prevIndex)}],
                          !.moved = TRUE],
                PlayState(c.playing), prevIndex)
      [] action = "seek" -> seek(c, x, value)
      [] OTHER ->
           sendStatusUpdate(
             [x EXCEPT !.q = [@ EXCEPT !.playing = {FALSE},
                                       !.idx = {0},
                                       !.item = {At(c.playlist.items, 0)}],
                       !.moved = TRUE],
             "paused", 0)

handleRemoteControl(c, x, action, value) ==
    CASE action = "play" ->
           sendStatusUpdate([x EXCEPT !.q = [@ EXCEPT !.playing = {TRUE}]],
                            "playing", c.idx)
      [] action = "pause" -> pause(c, x)
      [] action = "stop" ->
           sendStatusUpdate(
             [x EXCEPT !.q = [@ EXCEPT !.playing = {FALSE},
                                       !.idx = {0},
                                       !.item = {At(c.playlist.items, 0)}],
                       !.moved = TRUE],
             "paused", 0)
      [] action = "restart" ->
           sendStatusUpdate(
             [x EXCEPT !.q = [@ EXCEPT !.idx = {0},
                                       !.item = {At(c.playlist.items, 0)},
                                       !.playing = {TRUE}],
                       !.moved = TRUE],
             "playing", 0)
      [] action = "next" -> moveToNextItem(c, trackView(c, x, FALSE, TRUE))
      [] action = "previous" ->
           LET prevIndex == IF c.idx = 0 THEN Len(c.playlist.items) - 1
                            ELSE c.idx - 1
               y == trackView(c, x, FALSE, TRUE)
           IN sendStatusUpdate(
                [y EXCEPT !.q = [@ EXCEPT !.idx = {prevIndex},
                                          !.item = {At(c.playlist.items, prevIndex)}],
                          !.moved = TRUE],
                PlayState(c.playing), prevIndex)
      [] action = "seek" -> seek(c, x, value)
      [] OTHER -> x

\* ------------------------------------------------------------- effects
AllEffects == {"sync", "conn", "msg", "timer"}

\* applies the prop at the first run only
SyncEffectFirstRunOnly(c, x) ==
    IF ~x.init THEN applyPlaylist(c, x, c.prop, TRUE) ELSE x

\* useEffect [initialPlaylist, applyPlaylist, playlist, playlistsEqual]
SyncEffect(c, x) ==
    IF ~x.init THEN applyPlaylist(c, x, c.prop, TRUE)
    ELSE IF ~playlistsEqual(c.prop, c.playlist)
         THEN applyPlaylist(c, x, c.prop, FALSE)
         ELSE x

\* useEffect [wsStatus, display.id, playlist.id, onConnectionStatusChange]
ConnEffect(c, x) ==
    IF c.ws \in {"disconnected", "error"}
         /\ x.cache # NoPlaylist /\ x.cache.id # c.playlist.id
    THEN [x EXCEPT !.q = [@ EXCEPT !.playlist = {x.cache}, !.itemsNew = TRUE]]
    ELSE x

\* handles a control command whatever display it names
MsgEffectAnyDisplay(c, x) ==
    CASE c.msg.type = "playlist_update" ->
           IF c.msg.to = ThisDisplay
           THEN applyPlaylist(c, x, c.msg.playlist, FALSE)
           ELSE x
      [] c.msg.type = "display_control" ->
           handleRemoteControl(c, x, c.msg.action, c.msg.value)
      [] c.msg.type = "emergency_stop" ->
           IF c.msg.to \in {"all", ThisDisplay}
           THEN sendStatusUpdate([x EXCEPT !.q = [@ EXCEPT !.playing = {FALSE}]],
                                 "paused", c.idx)
           ELSE x
      [] OTHER -> x

\* useEffect [lastMessage, display.id, currentIndex, sendStatusUpdate, applyPlaylist]
MsgEffect(c, x) ==
    CASE c.msg.type = "playlist_update" ->
           IF c.msg.to = ThisDisplay
           THEN applyPlaylist(c, x, c.msg.playlist, FALSE)
           ELSE x
      [] c.msg.type = "display_control" ->
           IF c.msg.to = ThisDisplay
           THEN handleRemoteControl(c, x, c.msg.action, c.msg.value)
           ELSE x
      [] c.msg.type = "emergency_stop" ->
           IF c.msg.to \in {"all", ThisDisplay}
           THEN sendStatusUpdate([x EXCEPT !.q = [@ EXCEPT !.playing = {FALSE}]],
                                 "paused", c.idx)
           ELSE x
      [] OTHER -> x

\* const duration = currentItem.duration * 1000: the delay of the timeout
durationMs(item) == item.duration * 1000

\* useEffect [currentItem, isPlaying, moveToNextItem, playlist.items.length];
\* its cleanup has already run when the body runs
TimerEffect(c, x) ==
    IF ~c.playing \/ c.item = NoItem THEN [x EXCEPT !.timer = NoTimer]
    ELSE IF Len(c.playlist.items) <= 1 THEN [x EXCEPT !.timer = NoTimer]
    ELSE [x EXCEPT !.timer =
            [armed |-> TRUE, idx |-> c.idx, playlist |-> c.playlist,
             playing |-> c.playing, item |-> c.item, superseded |-> FALSE]]

\* cleanup returned by the timer effect
TimerCleanup(x) == [x EXCEPT !.timer = NoTimer]


\* one flush of the passive effects of the last commit: the cleanups of the
\* effects that run again, then their bodies in the order of declaration
Flushed ==
    LET c == Closure
        x0 == [q |-> queue, timer |-> timer, cache |-> cache,
               init |-> hasInitialized, moved |-> FALSE, out |-> <<>>]
        x1 == IF "timer" \in pendingEffects THEN TimerCleanup(x0) ELSE x0
        x2 == IF "sync" \in pendingEffects THEN SyncEffect(c, x1) ELSE x1
        x3 == IF "conn" \in pendingEffects THEN ConnEffect(c, x2) ELSE x2
        x4 == IF "msg" \in pendingEffects THEN MsgEffect(c, x3) ELSE x3
        x5 == IF "timer" \in pendingEffects THEN TimerEffect(c, x4) ELSE x4
    IN  x5

\* a timer that is armed when a transition has been issued belongs to the
\* render before that transition
Superseded(x) ==
    IF x.timer.armed /\ x.moved THEN [x.timer EXCEPT !.superseded = TRUE]
    ELSE x.timer

Pick(s, old) == IF s = {} THEN old ELSE CHOOSE v \in s : TRUE

\* ------------------------------------------------------------- actions
\* no setter call waits for a render and no effect waits for its flush.  The
\* socket hook and the page hand over a message, a status or a prop when
\* React is idle; a timeout can expire at any moment
Idle == queue = EmptyQueue /\ pendingEffects = {}

PlayerInit ==
    /\ mounted = FALSE
    /\ initialPlaylist = NoPlaylist
    /\ playlist = NoPlaylist
    /\ currentIndex = 0
    /\ isPlaying = TRUE
    /\ currentItem = NoItem
    /\ nextItem = NoItem
    /\ hasInitialized = FALSE
    /\ timer = NoTimer
    /\ lastMessage = NoMessage
    /\ wsStatus = "connecting"
    /\ cache \in {NoPlaylist} \cup {Normalize(p) : p \in Catalog}
    /\ queue = EmptyQueue
    /\ pendingEffects = {}
    /\ fired = "none"
    /\ crashed = FALSE
    /\ sent = <<>>

\* a fetchDisplay(false) call in flight: playlist of its closure is read only
\* when isPolling, so the record of a non-polling call carries none
NoFetch == [polling |-> FALSE, held |-> NoPlaylist]

PageInit ==
    /\ page = [display |-> FALSE, playlist |-> NoPlaylist, loading |-> TRUE,
               error |-> "none"]
    /\ inflight = {NoFetch}
    /\ deferred = {}
    /\ reloadPending = FALSE
    /\ pageEvent = [kind |-> "none", data |-> NoPlaylist]

\* no TransitionContainer is rendered
NoContainer ==
    [mounted |-> FALSE, transition |-> "fade", duration |-> 0, lowPower |-> FALSE,
     optimizedTransition |-> "fade", optimizedDuration |-> 0,
     isLowPower |-> FALSE, effectPending |-> FALSE]

\* no OptimizedImageRenderer is rendered
NoImage ==
    [mounted |-> FALSE, retryCount |-> 0, error |-> FALSE, isReady |-> FALSE,
     effectPending |-> FALSE, loading |-> {}, timers |-> {}, attempts |-> 0,
     reported |-> FALSE]

\* image URLs that renderers ask for
Urls == {"a.png", "b.png", "c.png"}

\* callers that wait for one URL at a time
MaxWaiting == 3

\* what the last step on the image maps was
NoStep == [op |-> "none", url |-> "a.png", hit |-> FALSE, shared |-> FALSE,
           started |-> FALSE]

\* the module has just been loaded: both maps are empty
NoPreload ==
    [imageCache |-> {}, loadingPromises |-> {},
     images |-> [u \in Urls |-> 0], waiting |-> [u \in Urls |-> 0],
     last |-> NoStep]

RendererInit == tc = NoContainer /\ img = NoImage /\ pre = NoPreload

Init ==
    /\ PlayerInit
    /\ PageInit
    /\ rc = NoCall
    /\ RendererInit

\* the page renders <DisplayPlayer playlist={p}> for the first time, or again
\* under a new key
Mount(p) ==
    /\ ~mounted
    /\ p.hasItems
    /\ crashed' = FALSE
    /\ sent' = <<>>
    /\ mounted' = TRUE
    /\ initialPlaylist' = p
    /\ playlist' = p
    /\ currentIndex' = 0
    /\ isPlaying' = TRUE
    /\ currentItem' = At(ItemsOf(p), 0)
    /\ nextItem' = At(ItemsOf(p), 1)
    /\ hasInitialized' = FALSE
    /\ timer' = NoTimer
    /\ lastMessage' = NoMessage
    /\ wsStatus' = "connecting"
    /\ queue' = EmptyQueue
    /\ pendingEffects' = AllEffects
    /\ fired' = "none"
    /\ UNCHANGED cache
    /\ UNCHANGED <<pageVars, rc, rendererVars>>

\* the page renders the player with a playlist that has no items array: the
\* first render reads playlist.items.length and throws
MountCrash(p) ==
    /\ ~mounted
    /\ ~p.hasItems
    /\ crashed' = TRUE
    /\ sent' = <<>>
    /\ UNCHANGED <<mounted, initialPlaylist, playlist, currentIndex, isPlaying,
                   currentItem, nextItem, hasInitialized, timer, lastMessage,
                   wsStatus, cache, queue, pendingEffects, fired>>
    /\ UNCHANGED <<pageVars, rc, rendererVars>>

\* the page stops rendering the player: no playlist, an error, a reload, or
\* a playlist with another id (the key changes)
Unmount ==
    /\ mounted
    /\ mounted' = FALSE
    /\ initialPlaylist' = NoPlaylist
    /\ playlist' = NoPlaylist
    /\ currentIndex' = 0
    /\ isPlaying' = TRUE
    /\ currentItem' = NoItem
    /\ nextItem' = NoItem
    /\ hasInitialized' = FALSE
    /\ timer' = NoTimer
    /\ lastMessage' = NoMessage
    /\ wsStatus' = "connecting"
    /\ queue' = EmptyQueue
    /\ pendingEffects' = {}
    /\ fired' = "none"
    /\ UNCHANGED cache
    /\ sent' = <<>>
    /\ UNCHANGED crashed
    /\ UNCHANGED <<pageVars, rc, rendererVars>>

\* a push or poll handler of the page removes the stored playlist of the
\* display: localStorage.removeItem(`isodisplay_playlist_${display.id}`)
ClearCache ==
    /\ Idle
    /\ cache # NoPlaylist
    /\ cache' = NoPlaylist
    /\ sent' = <<>>
    /\ UNCHANGED <<mounted, initialPlaylist, playlist, currentIndex, isPlaying,
                   currentItem, nextItem, hasInitialized, timer, lastMessage,
                   wsStatus, queue, pendingEffects, fired, crashed>>
    /\ UNCHANGED <<pageVars, rc, rendererVars>>

\* the page passes a new playlist object with the same id
PropChange(p) ==
    /\ mounted
    /\ p.id = initialPlaylist.id
    /\ Idle
    /\ queue' = [queue EXCEPT !.prop = {p}]
    /\ fired' = "none"
    /\ UNCHANGED <<mounted, initialPlaylist, playlist, currentIndex, isPlaying,
                   currentItem, nextItem, hasInitialized, timer, lastMessage,
                   wsStatus, cache, pendingEffects>>
    /\ sent' = <<>>
    /\ UNCHANGED crashed
    /\ UNCHANGED <<pageVars, rc, rendererVars>>

\* the socket hook receives a message
Receive(m) ==
    /\ mounted
    /\ Idle
    /\ queue' = [queue EXCEPT !.msg = {m}]
    /\ fired' = "none"
    /\ UNCHANGED <<mounted, initialPlaylist, playlist, currentIndex, isPlaying,
                   currentItem, nextItem, hasInitialized, timer, lastMessage,
                   wsStatus, cache, pendingEffects>>
    /\ sent' = <<>>
    /\ UNCHANGED crashed
    /\ UNCHANGED <<pageVars, rc, rendererVars>>

\* the socket hook reports a new connection status
StatusChange(s) ==
    /\ mounted
    /\ Idle
    /\ s # wsStatus
    /\ queue' = [queue EXCEPT !.ws = {s}]
    /\ fired' = "none"
    /\ UNCHANGED <<mounted, initialPlaylist, playlist, currentIndex, isPlaying,
                   currentItem, nextItem, hasInitialized, timer, lastMessage,
                   wsStatus, cache, pendingEffects>>
    /\ sent' = <<>>
    /\ UNCHANGED crashed
    /\ UNCHANGED <<pageVars, rc, rendererVars>>

\* the armed timeout expires: moveToNextItem of the arming render runs
TimerFire ==
    /\ mounted
    /\ timer.armed
    /\ LET c == [playlist |-> timer.playlist, idx |-> timer.idx,
                 playing |-> timer.playing, item |-> timer.item]
           x == moveToNextItem(c, [q |-> queue, moved |-> FALSE, out |-> <<>>])
       IN /\ queue' = x.q
          /\ sent' = x.out
    /\ timer' = NoTimer
    /\ fired' = IF /\ timer.superseded
                    /\ \/ timer.idx # Pick(queue.idx, currentIndex)
                       \/ timer.playlist # Pick(queue.playlist, playlist)
                 THEN "stale" ELSE "live"
    /\ UNCHANGED <<mounted, initialPlaylist, playlist, currentIndex, isPlaying,
                   currentItem, nextItem, hasInitialized, lastMessage,
                   wsStatus, cache, pendingEffects>>
    /\ UNCHANGED crashed
    /\ UNCHANGED <<pageVars, rc, rendererVars>>

FlushEffects ==
    /\ mounted
    /\ pendingEffects # {}
    /\ currentIndex > -MaxBelow
    /\ LET x == Flushed IN
         /\ queue' = x.q
         /\ timer' = Superseded(x)
         /\ cache' = x.cache
         /\ hasInitialized' = x.init
         /\ sent' = x.out
    /\ pendingEffects' = {}
    /\ fired' = "none"
    /\ UNCHANGED <<mounted, initialPlaylist, playlist, currentIndex, isPlaying,
                   currentItem, nextItem, lastMessage, wsStatus>>
    /\ UNCHANGED crashed
    /\ UNCHANGED <<pageVars, rc, rendererVars>>

\* the effects whose dependency lists differ between two commits
Dirty(old, new, q) ==
    (IF q.prop # {} \/ q.playlist # {} THEN {"sync"} ELSE {})
    \cup (IF new.ws # old.ws \/ new.playlist.id # old.playlist.id
          THEN {"conn"} ELSE {})
    \cup (IF q.msg # {} \/ new.idx # old.idx \/ q.playlist # {}
          THEN {"msg"} ELSE {})
    \cup (IF new.item # old.item \/ new.playing # old.playing
             \/ new.idx # old.idx \/ q.itemsNew
          THEN {"timer"} ELSE {})

Render ==
    /\ mounted
    /\ pendingEffects = {}
    /\ queue # EmptyQueue
    /\ playlist' = Pick(queue.playlist, playlist)
    /\ currentIndex' = Pick(queue.idx, currentIndex)
    /\ isPlaying' = Pick(queue.playing, isPlaying)
    /\ currentItem' = Pick(queue.item, currentItem)
    /\ nextItem' = Pick(queue.next, nextItem)
    /\ initialPlaylist' = Pick(queue.prop, initialPlaylist)
    /\ lastMessage' = Pick(queue.msg, lastMessage)
    /\ wsStatus' = Pick(queue.ws, wsStatus)
    /\ pendingEffects' = Dirty(Closure, Closure', queue)
    /\ queue' = EmptyQueue
    /\ fired' = "none"
    /\ UNCHANGED <<mounted, hasInitialized, timer, cache>>
    /\ sent' = <<>>
    /\ UNCHANGED crashed
    /\ UNCHANGED <<pageVars, rc, rendererVars>>

\* ------------------------------------------------------------- inputs
Actions == {"play", "pause", "stop", "restart", "next", "previous", "seek",
            "reload", "refresh_content", "clear_cache", "unknown"}

Control(a, v, to) ==
    [type |-> "display_control", to |-> to, action |-> a, value |-> v,
     playlist |-> NoPlaylist]

PlaylistUpdate(p, to) ==
    [type |-> "playlist_update", to |-> to, action |-> "none", value |-> 0,
     playlist |-> p]

EmergencyStop(to) ==
    [type |-> "emergency_stop", to |-> to, action |-> "none", value |-> 0,
     playlist |-> NoPlaylist]

Messages ==
    {Control(a, 0, ThisDisplay) : a \in Actions \ {"seek"}}
    \cup {Control("seek", v, ThisDisplay) : v \in -1..MaxItems}
    \cup {Control("seek", Undefined, ThisDisplay)}
    \cup {Control("next", 0, OtherDisplay)}
    \cup {PlaylistUpdate(p, ThisDisplay) : p \in Catalog \cup {NoPlaylist}}
    \cup {PlaylistUpdate(PlShort, OtherDisplay)}
    \cup {EmergencyStop(to) : to \in {"all", ThisDisplay, OtherDisplay}}

Statuses == {"connecting", "connected", "disconnected", "error"}

Next ==
    \/ \E p \in Catalog : Mount(p)
    \/ \E p \in Catalog : MountCrash(p)
    \/ Unmount
    \/ ClearCache
    \/ \E p \in Catalog : PropChange(p)
    \/ \E m \in Messages : Receive(m)
    \/ \E s \in Statuses : StatusChange(s)
    \/ TimerFire
    \/ FlushEffects
    \/ Render

Spec == Init /\ [][Next]_vars

\* the browser runs an expired timeout, and React renders queued updates and
\* flushes pending effects, without being asked again
SpecLive ==
    Init /\ [][Next]_vars
         /\ WF_vars(TimerFire) /\ WF_vars(FlushEffects) /\ WF_vars(Render)

\* ------------------------------------------------------------- page
\* fetchDisplay calls in flight and deferred callbacks the model follows at once
MaxInflight == 1
MaxDeferred == 1

PageCatalog == {PlFull, PlShort, PlEdited, PlSingle}

\* playlist?.items?.length; -1 stands for undefined
ItemsLength(p) == IF p.hasItems THEN Len(p.items) ELSE -1

\* the dependency list of fetchDisplay
FetchDeps(pg) == <<pg.display, pg.playlist.id, ItemsLength(pg.playlist)>>

playlistChanged(held, data) ==
    /\ data # NoPlaylist
    /\ held # NoPlaylist
    /\ \/ held.id # data.id
       \/ ItemsLength(held) # ItemsLength(data)

\* a page render: when fetchDisplay is a new function the polling effect runs
\* again, which calls fetchDisplay(false) and restarts the interval
Rerender(newPage, rest) ==
    /\ page' = newPage
    /\ inflight' = rest \cup
          (IF FetchDeps(newPage) # FetchDeps(page)
           THEN {NoFetch} ELSE {})

\* what the last step of the page was: a response, a failed request, a
\* display update or a snapshot and the playlist it carried, or nothing
NoEvent == [kind |-> "none", data |-> NoPlaylist]

\* setInterval(() => fetchDisplay(true), 15000)
PollTick ==
    /\ Cardinality(inflight) < MaxInflight
    /\ inflight' = inflight \cup {[polling |-> TRUE, held |-> page.playlist]}
    /\ pageEvent' = NoEvent
    /\ UNCHANGED <<page, deferred, reloadPending>>
    /\ UNCHANGED <<playerVars, rc, rendererVars>>

\* fetchDisplay() of refresh_content, of a content update, of the retry button
Refetch ==
    /\ Cardinality(inflight) < MaxInflight
    /\ inflight' = inflight \cup {NoFetch}
    /\ pageEvent' = NoEvent
    /\ UNCHANGED <<page, deferred, reloadPending>>
    /\ UNCHANGED <<playerVars, rc, rendererVars>>

\* the response of a fetchDisplay call arrives; data is data.assignedPlaylist
FetchOk(f, data) ==
    /\ f \in inflight
    /\ IF f.polling /\ playlistChanged(f.held, data)
       THEN /\ reloadPending' = TRUE
            /\ inflight' = inflight \ {f}
            /\ UNCHANGED page
       ELSE /\ Rerender([display |-> TRUE, playlist |-> data,
                         loading |-> FALSE, error |-> "none"], inflight \ {f})
            /\ UNCHANGED reloadPending
    /\ pageEvent' = [kind |-> IF f.polling THEN "poll" ELSE "fetch", data |-> data]
    /\ UNCHANGED deferred
    /\ UNCHANGED <<playerVars, rc, rendererVars>>

\* a failed request also drops the held playlist
FetchFailDropsPlaylist(f) ==
    /\ f \in inflight
    /\ Rerender([page EXCEPT !.error = "Failed to load display",
                             !.playlist = NoPlaylist,
                             !.loading = FALSE], inflight \ {f})
    /\ pageEvent' = [kind |-> "fetch_failed", data |-> NoPlaylist]
    /\ UNCHANGED <<deferred, reloadPending>>
    /\ UNCHANGED <<playerVars, rc, rendererVars>>

\* the request fails or the response is not OK
FetchFail(f) ==
    /\ f \in inflight
    /\ Rerender([page EXCEPT !.error = "Failed to load display",
                             !.loading = FALSE], inflight \ {f})
    /\ pageEvent' = [kind |-> "fetch_failed", data |-> NoPlaylist]
    /\ UNCHANGED <<deferred, reloadPending>>
    /\ UNCHANGED <<playerVars, rc, rendererVars>>

\* onPlaylistUpdate: the state change is deferred with setTimeout(..., 0)
PushPlaylist(p) ==
    /\ Cardinality(deferred) < MaxDeferred
    /\ deferred' = deferred \cup {p}
    /\ pageEvent' = NoEvent
    /\ UNCHANGED <<page, inflight, reloadPending>>
    /\ UNCHANGED <<playerVars, rc, rendererVars>>

RunDeferred(p) ==
    /\ p \in deferred
    /\ deferred' = deferred \ {p}
    /\ Rerender([page EXCEPT !.playlist = p, !.error = "none",
                             !.loading = FALSE], inflight)
    /\ pageEvent' = NoEvent
    /\ UNCHANGED reloadPending
    /\ UNCHANGED <<playerVars, rc, rendererVars>>

\* onDisplayUpdate(updatedDisplay); kind says what assignedPlaylist is
PushDisplay(kind, p) ==
    /\ Rerender(
         [display |-> kind # "nodisplay",
          playlist |-> IF kind = "assigned" THEN p ELSE NoPlaylist,
          loading |-> FALSE,
          error |-> CASE kind \in {"assigned", "null"} -> "none"
                      [] kind = "nodisplay" -> "Display not found"
                      [] OTHER -> page.error],
         inflight)
    /\ pageEvent' = IF kind \in {"assigned", "null"}
                    THEN [kind |-> "display_update",
                          data |-> IF kind = "assigned" THEN p ELSE NoPlaylist]
                    ELSE NoEvent
    /\ UNCHANGED <<deferred, reloadPending>>
    /\ UNCHANGED <<playerVars, rc, rendererVars>>

\* onInitialData(data)
InitialData(hasDisplay, kind, p) ==
    /\ Rerender(
         [display |-> page.display \/ hasDisplay,
          playlist |-> CASE kind = "assigned" -> p
                         [] kind = "null" -> NoPlaylist
                         [] OTHER -> page.playlist,
          loading |-> page.loading /\ ~hasDisplay,
          error |-> IF kind \in {"assigned", "null"} THEN "none" ELSE page.error],
         inflight)
    /\ pageEvent' = IF kind \in {"assigned", "null"}
                    THEN [kind |-> "initial_data",
                          data |-> IF kind = "assigned" THEN p ELSE NoPlaylist]
                    ELSE NoEvent
    /\ UNCHANGED <<deferred, reloadPending>>
    /\ UNCHANGED <<playerVars, rc, rendererVars>>

\* window.location.reload(): the page starts again
Reload ==
    /\ reloadPending
    /\ page' = [display |-> FALSE, playlist |-> NoPlaylist, loading |-> TRUE,
                error |-> "none"]
    /\ inflight' = {NoFetch}
    /\ deferred' = {}
    /\ reloadPending' = FALSE
    /\ pageEvent' = [kind |-> "reload", data |-> NoPlaylist]
    /\ UNCHANGED <<playerVars, rc, rendererVars>>

AssignedKinds == {"assigned", "null", "absent"}

PageNext ==
    \/ PollTick
    \/ Refetch
    \/ \E f \in inflight, data \in PageCatalog \cup {NoPlaylist} : FetchOk(f, data)
    \/ \E f \in inflight : FetchFail(f)
    \/ \E p \in PageCatalog \cup {NoPlaylist} : PushPlaylist(p)
    \/ \E p \in deferred : RunDeferred(p)
    \/ \E kind \in AssignedKinds \cup {"nodisplay"} : PushDisplay(kind, PlShort)
    \/ \E hasDisplay \in BOOLEAN, kind \in AssignedKinds :
          InitialData(hasDisplay, kind, PlFull)
    \/ Reload

PageSpecInit == Init /\ cache = NoPlaylist

SpecPage == PageSpecInit /\ [][PageNext]_vars

\* ------------------------------------------------------------- reconcile
\* applyPlaylist called on its own, for every held playlist and candidate
WithItem(p, k, it) == [p EXCEPT !.items = [@ EXCEPT ![k] = it]]

\* PlFull with one field of one item changed, and playlists that differ from
\* it in id or in item count
Pool ==
    {PlFull, PlShort, PlEdited, PlSingle, PlMissing,
     Playlist(2, BaseItems(MaxItems)), Playlist(1, <<>>)}
    \cup {WithItem(PlFull, 2, [Item(2, 5) EXCEPT !.id = 8]),
          WithItem(PlFull, 2, [Item(2, 5) EXCEPT !.contentId = 18]),
          WithItem(PlFull, 1, [Item(1, 5) EXCEPT !.order = 8]),
          WithItem(PlFull, 1, [Item(1, 5) EXCEPT !.transition = "slide"]),
          WithItem(PlFull, MaxItems,
                   [Item(MaxItems, 5) EXCEPT !.transitionDuration = 2])}

Reconcile(candidate, force) ==
    LET c == [playlist |-> rc.held, idx |-> 0, playing |-> TRUE,
              item |-> At(ItemsOf(rc.held), 0), next |-> At(ItemsOf(rc.held), 1),
              prop |-> rc.held, msg |-> NoMessage, ws |-> "connected"]
        x == [q |-> EmptyQueue, timer |-> NoTimer, cache |-> NoPlaylist,
              init |-> rc.init, moved |-> FALSE, out |-> <<>>]
        r == applyPlaylist(c, x, candidate, force)
    IN /\ rc' = [done |-> TRUE,
                 held |-> Pick(r.q.playlist, rc.held),
                 init |-> r.init,
                 candidate |-> candidate,
                 force |-> force,
                 apply |-> r.q.playlist # {},
                 before |-> rc.held,
                 wasInit |-> rc.init]
       /\ UNCHANGED <<playerVars, pageVars, rendererVars>>

ReconcileInit ==
    /\ PlayerInit
    /\ cache = NoPlaylist
    /\ PageInit
    /\ RendererInit
    /\ \E h \in {p \in Pool : p.hasItems}, i \in BOOLEAN :
          rc = [NoCall EXCEPT !.held = h, !.init = i]

ReconcileNext ==
    \E candidate \in Pool \cup {NoPlaylist}, force \in BOOLEAN :
        Reconcile(candidate, force)

SpecReconcile == ReconcileInit /\ [][ReconcileNext]_vars

\* ------------------------------------------------------------- transitions
\* TransitionContainer; durations are in milliseconds
ComplexTransitions ==
    {"dissolve", "burn", "morph", "zoom", "iris", "peel", "page-roll"}

\* the transition kinds an item can ask for
TransitionEffects == ComplexTransitions \cup {"fade", "cut", "slide"}

\* the transition durations an item can ask for
Durations == {200, 500, 1000}

\* Math.min(duration, 0.5)
DurationCapMs == 500

\* Math.min(optimizedDuration, 0.3)
ExitCapMs == 300

Min(a, b) == IF a < b THEN a ELSE b

\* what the effect stores in optimizedTransition and optimizedDuration
lowPowerPolicy(lowPower, transition, duration) ==
    IF lowPower
    THEN [transition |-> IF transition \in ComplexTransitions THEN "fade"
                         ELSE transition,
          duration |-> Min(duration, DurationCapMs)]
    ELSE [transition |-> transition, duration |-> duration]

\* the timeout handed to CSSTransition by a render
timeout(c) ==
    [enter |-> c.optimizedDuration,
     exit |-> Min(c.optimizedDuration, ExitCapMs)]

\* first render: useState(transition), useState(duration), useState(false)
TcMount(t, d, lp) ==
    /\ ~tc.mounted
    /\ tc' = [mounted |-> TRUE, transition |-> t, duration |-> d, lowPower |-> lp,
              optimizedTransition |-> t, optimizedDuration |-> d,
              isLowPower |-> FALSE, effectPending |-> TRUE]
    /\ UNCHANGED <<playerVars, pageVars, rc, img, pre>>

\* the player renders again with the transition of another item; the
\* displaySettings prop is a new object in every render of the player, so
\* the effect runs after each of them
TcRender(t, d) ==
    /\ tc.mounted
    /\ ~tc.effectPending
    /\ tc' = [tc EXCEPT !.transition = t, !.duration = d, !.effectPending = TRUE]
    /\ UNCHANGED <<playerVars, pageVars, rc, img, pre>>

\* useEffect [transition, duration, displaySettings] and the render its
\* state updates cause
TcEffect ==
    /\ tc.mounted
    /\ tc.effectPending
    /\ LET o == lowPowerPolicy(tc.lowPower, tc.transition, tc.duration) IN
         tc' = [tc EXCEPT !.isLowPower = tc.lowPower,
                          !.optimizedTransition = o.transition,
                          !.optimizedDuration = o.duration,
                          !.effectPending = FALSE]
    /\ UNCHANGED <<playerVars, pageVars, rc, img, pre>>

TcUnmount ==
    /\ tc.mounted
    /\ tc' = NoContainer
    /\ UNCHANGED <<playerVars, pageVars, rc, img, pre>>

TransitionInit ==
    /\ PlayerInit
    /\ cache = NoPlaylist
    /\ PageInit
    /\ rc = NoCall
    /\ RendererInit

TransitionNext ==
    \/ \E t \in TransitionEffects, d \in Durations, lp \in BOOLEAN : TcMount(t, d, lp)
    \/ \E t \in TransitionEffects, d \in Durations : TcRender(t, d)
    \/ TcEffect
    \/ TcUnmount

SpecTransition == TransitionInit /\ [][TransitionNext]_vars

\* ------------------------------------------------------------- image
\* OptimizedImageRenderer showing one image (preload = false). A loadImage
\* callback is named by the retryCount of the render that created it.
maxRetries == 3

\* image loads counted by the model
MaxAttempts == 6

\* preloadImage(url) as called by loadImage k: a load in progress is shared
\* (loadingPromises), otherwise a new Image starts loading
preloadImage(i, k) ==
    [i EXCEPT !.loading = @ \cup {k},
              !.attempts = IF i.loading = {} THEN @ + 1 ELSE @]

\* loadImage of the render with retryCount k is called: setError(null) and
\* the wait for preloadImage
loadImage(i, k) == preloadImage([i EXCEPT !.error = FALSE], k)

\* first render of the component
ImgMount ==
    /\ ~img.mounted
    /\ img' = [NoImage EXCEPT !.mounted = TRUE, !.effectPending = TRUE]
    /\ UNCHANGED <<playerVars, pageVars, rc, tc, pre>>

\* useEffect [imageUrl, preload, loadImage]: calls the loadImage of the
\* last render
ImgEffect ==
    /\ img.mounted
    /\ img.effectPending
    /\ img.attempts < MaxAttempts
    /\ img' = loadImage([img EXCEPT !.effectPending = FALSE], img.retryCount)
    /\ UNCHANGED <<playerVars, pageVars, rc, tc, pre>>

\* the image loads: every loadImage that waits continues with
\* setIsReady(true), setRetryCount(0), onLoad()
ImgLoadOk ==
    /\ img.mounted
    /\ img.loading # {}
    /\ img' = [img EXCEPT !.loading = {},
                          !.isReady = TRUE,
                          !.retryCount = 0,
                          !.effectPending = @ \/ img.retryCount # 0]
    /\ UNCHANGED <<playerVars, pageVars, rc, tc, pre>>

\* the image fails to load: every loadImage that waits runs its catch
\* branch, which sets the error and either schedules a retry or calls onError
ImgLoadFails ==
    /\ img.mounted
    /\ img.loading # {}
    /\ ~img.isReady
    /\ img' = [img EXCEPT !.loading = {},
                          !.error = TRUE,
                          !.timers = @ \cup {k \in img.loading : k < maxRetries},
                          !.reported = @ \/ \E k \in img.loading : k >= maxRetries]
    /\ UNCHANGED <<playerVars, pageVars, rc, tc, pre>>

\* the retry timeout of a loadImage expires: setRetryCount(prev => prev + 1)
\* and a call of that same loadImage
ImgRetry(k) ==
    /\ img.mounted
    /\ k \in img.timers
    /\ img.attempts < MaxAttempts
    /\ img' = loadImage([img EXCEPT !.timers = @ \ {k},
                                    !.retryCount = @ + 1,
                                    !.effectPending = TRUE], k)
    /\ UNCHANGED <<playerVars, pageVars, rc, tc, pre>>

\* the component unmounts: mountedRef.current = false stops every callback
ImgUnmount ==
    /\ img.mounted
    /\ img' = NoImage
    /\ UNCHANGED <<playerVars, pageVars, rc, tc, pre>>

ImageNext ==
    \/ ImgMount
    \/ ImgEffect
    \/ ImgLoadOk
    \/ ImgLoadFails
    \/ \E k \in img.timers : ImgRetry(k)
    \/ ImgUnmount

SpecImage == TransitionInit /\ [][ImageNext]_vars

\* ------------------------------------------------------------- image maps
\* imageCache and loadingPromises, shared by every renderer instance.
\* images[u] counts the Image elements whose load of u is under way and
\* waiting[u] the callers that hold an unsettled promise for u.

\* preloadImage without the check of the loads under way: every call for a
\* URL that is not cached starts a new Image
preloadNoShare(m, url) ==
    IF url \in m.imageCache THEN m
    ELSE [m EXCEPT !.images[url] = @ + 1,
                   !.loadingPromises = @ \cup {url},
                   !.waiting[url] = @ + 1]

\* preloadImage(url) with maps m: a cached image is returned at once, a load
\* under way is shared, otherwise a new Image starts to load and its promise
\* is registered
preload(m, url) ==
    IF url \in m.imageCache THEN m
    ELSE IF url \in m.loadingPromises
         THEN [m EXCEPT !.waiting[url] = @ + 1]
         ELSE [m EXCEPT !.images[url] = @ + 1,
                        !.loadingPromises = @ \cup {url},
                        !.waiting[url] = @ + 1]

\* a renderer calls preloadImage(url)
PreloadCall(url) ==
    /\ url \in pre.imageCache \/ pre.waiting[url] < MaxWaiting
    /\ LET m == preload(pre, url)
       IN pre' = [m EXCEPT !.last =
                    [op |-> "call", url |-> url,
                     hit |-> url \in pre.imageCache,
                     shared |-> url \in pre.loadingPromises,
                     started |-> m.images[url] > pre.images[url]]]
    /\ UNCHANGED <<playerVars, pageVars, rc, tc, img>>

\* img.onload of an Image loading url: cache it, drop the promise, resolve
PreloadLoaded(url) ==
    /\ pre.images[url] > 0
    /\ pre' = [pre EXCEPT !.imageCache = @ \cup {url},
                          !.loadingPromises = @ \ {url},
                          !.images[url] = @ - 1,
                          !.waiting[url] = 0,
                          !.last = [NoStep EXCEPT !.op = "loaded", !.url = url]]
    /\ UNCHANGED <<playerVars, pageVars, rc, tc, img>>

\* img.onerror of an Image loading url: drop the promise, reject
PreloadFailed(url) ==
    /\ pre.images[url] > 0
    /\ pre' = [pre EXCEPT !.loadingPromises = @ \ {url},
                          !.images[url] = @ - 1,
                          !.waiting[url] = 0,
                          !.last = [NoStep EXCEPT !.op = "failed", !.url = url]]
    /\ UNCHANGED <<playerVars, pageVars, rc, tc, img>>

PreloadNext ==
    \/ \E url \in Urls : PreloadCall(url)
    \/ \E url \in Urls : PreloadLoaded(url)
    \/ \E url \in Urls : PreloadFailed(url)

SpecPreload == TransitionInit /\ [][PreloadNext]_vars

\* ------------------------------------------------------------- types
TypeOK ==
    /\ mounted \in BOOLEAN
    /\ isPlaying \in BOOLEAN
    /\ hasInitialized \in BOOLEAN
    /\ currentIndex \in -(MaxBelow + 1)..MaxItems
    /\ pendingEffects \subseteq AllEffects
    /\ wsStatus \in Statuses
    /\ fired \in {"none", "live", "stale"}
    /\ crashed \in BOOLEAN
    /\ mounted => playlist.hasItems

\* ------------------------------------------------------------- claims
\* number of items of the held playlist
Count == Len(ItemsOf(playlist))

\* a settled state: the player is on the page and React has nothing to do
Settled == mounted /\ Idle

\* C1: after a manual transition (seek, next, previous, stop, restart) or an
\* accepted playlist apply, the dwell timer that was armed before it never
\* fires an advance: no timeout callback runs whose closure was superseded by
\* a newer index or playlist.
C1_NoStaleAdvance == fired # "stale"

\* C2: in every reachable state of the player the current index is a valid
\* offset into the held playlist, or the held playlist is empty and no item
\* is current.
C2_IndexValid ==
    mounted => \/ currentIndex \in 0..(Count - 1)
               \/ Count = 0 /\ currentItem = NoItem

\* C3: in every settled state a dwell timer is armed exactly when the player
\* is playing and the held playlist has at least two items; none is armed
\* with one item or while paused or stopped.
C3_TimerDiscipline ==
    Settled => (timer.armed <=> (isPlaying /\ Count >= 2))

\* the candidate of the playlist_update that is handled in this flush, if any
UpdateCandidate ==
    IF lastMessage.type = "playlist_update" /\ lastMessage.to = ThisDisplay
    THEN lastMessage.playlist ELSE NoPlaylist

\* the effects of this flush apply nothing but candidates that are
\* structurally identical to the held playlist, without force
AppliesIdentical ==
    /\ mounted
    /\ mounted'
    /\ hasInitialized
    /\ pendingEffects # {}
    /\ pendingEffects \subseteq {"sync", "msg"}
    /\ pendingEffects' = {}
    /\ "sync" \in pendingEffects => Normalize(initialPlaylist) = playlist
    /\ "msg" \in pendingEffects =>
          \/ lastMessage = NoMessage
          \/ /\ UpdateCandidate # NoPlaylist
             /\ Normalize(UpdateCandidate) = playlist

\* C4: applying a playlist that is structurally identical to the held one,
\* without force and after initialization, changes nothing: no index or
\* playlist update is queued, the armed timer is neither cancelled nor
\* re-armed, and the cache keeps its playlist.
C4_IdenticalApplyIsNoop ==
    [][AppliesIdentical =>
          /\ queue' = queue
          /\ timer' = timer
          /\ cache' = cache
          /\ playlist' = playlist
          /\ currentIndex' = currentIndex]_vars

\* an identical playlist_update was handled at index 1 with the timer armed
C4_Witness ==
    /\ Settled
    /\ UpdateCandidate # NoPlaylist
    /\ Normalize(UpdateCandidate) = playlist
    /\ currentIndex = 1
    /\ timer.armed
    /\ timer.idx = 1

\* the candidate differs from the held playlist in playlist id, item count or
\* a field of a positional item
Differs(a, b) ==
    \/ a.id # b.id
    \/ Len(ItemsOf(a)) # Len(ItemsOf(b))
    \/ \E i \in 1..Len(ItemsOf(a)) :
          /\ i <= Len(ItemsOf(b))
          /\ \/ ItemsOf(a)[i].id # ItemsOf(b)[i].id
             \/ ItemsOf(a)[i].contentId # ItemsOf(b)[i].contentId
             \/ ItemsOf(a)[i].order # ItemsOf(b)[i].order
             \/ ItemsOf(a)[i].duration # ItemsOf(b)[i].duration
             \/ ItemsOf(a)[i].transition # ItemsOf(b)[i].transition
             \/ ItemsOf(a)[i].transitionDuration # ItemsOf(b)[i].transitionDuration

\* C5: for a non-null candidate the reconcile decision is apply exactly when
\* force is set, or the held state was never initialized, or the candidate
\* differs from the held playlist in id, item count or any positional item's
\* id, contentId, order, duration, transition or transitionDuration.
C5_ReconcileDecision ==
    (rc.done /\ rc.candidate # NoPlaylist) =>
        (rc.apply <=> (rc.force \/ ~rc.wasInit \/ Differs(rc.candidate, rc.before)))

\* only one item's duration changed, no force, initialized: applied
C5_Witness ==
    /\ rc.done
    /\ ~rc.force
    /\ rc.wasInit
    /\ rc.before = PlFull
    /\ rc.candidate = PlEdited
    /\ rc.apply

\* C6: every accepted apply reinitializes the scheduler before it returns:
\* the held playlist becomes the normalized candidate (which is also
\* cached), the index 0, the current item the candidate's first item, and a
\* timer that is armed afterwards is one for the first item of the candidate.
C6_ApplyReinitializes ==
    [][(mounted /\ mounted' /\ queue.playlist = {} /\ queue'.playlist # {}) =>
          LET p == Pick(queue'.playlist, NoPlaylist) IN
            /\ p = cache'
            /\ queue'.idx = {0}
            /\ queue'.item = {At(p.items, 0)}
            /\ timer'.armed => (timer'.playlist = p /\ timer'.idx = 0)]_vars

C8_CountDriftReloads ==
    [][(/\ pageEvent'.kind = "poll"
        /\ pageEvent'.data # NoPlaylist
        /\ page.playlist # NoPlaylist
        /\ Len(ItemsOf(pageEvent'.data)) # Len(ItemsOf(page.playlist)))
          => reloadPending']_vars

\* the last message is an emergency stop for all displays or for this one
EmergencyHere ==
    /\ lastMessage.type = "emergency_stop"
    /\ lastMessage.to \in {"all", ThisDisplay}

\* C9: an emergency stop addressed to "all" or to this display forces the
\* player to paused, leaves the index as it is, and no dwell timer remains
\* armed afterwards.
C9_EmergencyStop ==
    [][(mounted /\ mounted' /\ EmergencyHere) =>
          /\ ("msg" \in pendingEffects /\ pendingEffects' = {})
                => queue'.playing = {FALSE}
          /\ (/\ ~isPlaying \/ queue.playing = {FALSE}
              /\ lastMessage' = lastMessage
              /\ queue.playlist = {}
              /\ queue'.playlist = {})
                => Pick(queue'.idx, currentIndex') = Pick(queue.idx, currentIndex)
          /\ Settled' => (~isPlaying' /\ ~timer'.armed)]_vars

\* the message effect of this flush handles the control command a
Handles(a) ==
    /\ "msg" \in pendingEffects
    /\ pendingEffects' = {}
    /\ queue'.playlist = {}
    /\ lastMessage.type = "display_control"
    /\ lastMessage.to = ThisDisplay
    /\ lastMessage.action = a

\* C10: with n >= 1 items at a valid index i, next moves the index to
\* (i+1) mod n and previous to (i-1) mod n; a timer expiry moves it like next.
C10_Wraparound ==
    [][(mounted /\ mounted' /\ Count >= 1 /\ currentIndex \in 0..(Count - 1)) =>
          /\ Handles("next") =>
                Pick(queue'.idx, currentIndex) = (currentIndex + 1) % Count
          /\ Handles("previous") =>
                Pick(queue'.idx, currentIndex) = (currentIndex + Count - 1) % Count
          /\ (/\ fired' # "none"
              /\ timer.idx = currentIndex
              /\ timer.playlist = playlist)
                => Pick(queue'.idx, currentIndex) = (currentIndex + 1) % Count]_vars

\* next at the last of MaxItems items has been handled: the index wraps to 0
C10_Witness ==
    /\ mounted
    /\ Count = MaxItems
    /\ currentIndex = MaxItems - 1
    /\ lastMessage = Control("next", 0, ThisDisplay)
    /\ pendingEffects = {}
    /\ queue.idx = {0}
    /\ queue.item = {At(playlist.items, 0)}

\* C11: seek(i) sets the current index to i when 0 <= i < itemCount; any
\* other i (negative, >= itemCount, not a number) is ignored: no update of
\* index, item or play status is queued, the timer is left as it is and
\* nothing is sent.
C11_Seek ==
    [][(mounted /\ mounted' /\ Handles("seek")) =>
          IF lastMessage.value # Undefined /\ lastMessage.value \in 0..(Count - 1)
          THEN /\ queue'.idx = {lastMessage.value}
               /\ queue'.item = {At(playlist.items, lastMessage.value)}
          ELSE /\ queue' = queue
               /\ sent' = <<>>
               /\ pendingEffects = {"msg"} => timer' = timer]_vars

\* seek(MaxItems) has been ignored at index 1 of MaxItems items, timer armed
C11_Witness ==
    /\ Settled
    /\ lastMessage = Control("seek", MaxItems, ThisDisplay)
    /\ Count = MaxItems
    /\ currentIndex = 1
    /\ isPlaying
    /\ timer.armed
    /\ timer.idx = 1

\* C12: stop leaves the player not playing at index 0 with the first item
\* current; restart leaves it playing at index 0 with the first item
\* current, and with the dwell timer armed for the first item when the
\* playlist has at least two items.
C12_StopRestart ==
    [][(mounted /\ mounted') =>
          /\ Handles("stop") =>
                /\ queue'.playing = {FALSE}
                /\ queue'.idx = {0}
                /\ queue'.item = {At(playlist.items, 0)}
          /\ Handles("restart") =>
                /\ queue'.playing = {TRUE}
                /\ queue'.idx = {0}
                /\ queue'.item = {At(playlist.items, 0)}
          /\ (Settled' /\ lastMessage' = Control("stop", 0, ThisDisplay)) =>
                /\ ~isPlaying'
                /\ currentIndex' = 0
                /\ currentItem' = At(ItemsOf(playlist'), 0)
          /\ (Settled' /\ lastMessage' = Control("restart", 0, ThisDisplay)) =>
                /\ isPlaying'
                /\ currentIndex' = 0
                /\ currentItem' = At(ItemsOf(playlist'), 0)
                /\ Count' >= 2 => (timer'.armed /\ timer'.idx = 0)]_vars

\* C13: play moves the player to playing and pause moves it to paused; both
\* leave the index, the current item and the held playlist as they are.
C13_PlayPause ==
    [][(mounted /\ mounted') =>
          /\ Handles("play") =>
                /\ queue'.playing = {TRUE}
                /\ queue'.idx = queue.idx
                /\ queue'.item = queue.item
                /\ queue'.playlist = queue.playlist
          /\ Handles("pause") =>
                /\ queue'.playing = {FALSE}
                /\ queue'.idx = queue.idx
                /\ queue'.item = queue.item
                /\ queue'.playlist = queue.playlist
          /\ (Settled' /\ lastMessage' = Control("play", 0, ThisDisplay))
                => isPlaying'
          /\ (Settled' /\ lastMessage' = Control("pause", 0, ThisDisplay))
                => ~isPlaying']_vars

\* pause has been handled at index 1: paused, still at index 1
C13_Witness ==
    /\ Settled
    /\ lastMessage = Control("pause", 0, ThisDisplay)
    /\ ~isPlaying
    /\ currentIndex = 1
    /\ currentItem = At(playlist.items, 1)

\* C14: after every accepted playlist apply the scheduler is playing at
\* index 0, whatever it was before: the state the flush that applied the
\* playlist leaves for the next render has play status true and index 0.
C14_ApplyAutoplays ==
    [][(mounted /\ mounted' /\ queue.playlist = {} /\ queue'.playlist # {}) =>
          /\ Pick(queue'.idx, currentIndex') = 0
          /\ Pick(queue'.playing, isPlaying') = TRUE]_vars

\* C15: a null candidate is always applied: after reconciling null the held
\* state is the empty no-playlist state and the player counts as
\* initialized; the call is never ignored.
C15_NullApplied ==
    (rc.done /\ rc.candidate = NoPlaylist) =>
        (rc.apply /\ rc.held = NoPlaylist /\ rc.init)

\* C16: a candidate without an item sequence never raises an error and is
\* never rejected: it is applied with an empty item sequence, and once the
\* player has settled on it the held playlist has zero items, no item is
\* current and no dwell timer is armed.
C16_MissingItemsNormalized ==
    /\ ~crashed
    /\ \A p \in queue.playlist : p.hasItems
    /\ (Settled /\ ~initialPlaylist.hasItems) =>
          /\ playlist = Normalize(initialPlaylist)
          /\ Count = 0
          /\ currentItem = NoItem
          /\ ~timer.armed

\* C17: every transition that changes the index or the play status sends a
\* status update carrying the resulting state and the resulting index: a
\* step of the mounted player that changes the index or play status the next
\* render will show has sent such an update.
C17_StatusOnEveryChange ==
    [][(/\ mounted /\ mounted'
        /\ \/ Pick(queue'.idx, currentIndex') # Pick(queue.idx, currentIndex)
           \/ Pick(queue'.playing, isPlaying') # Pick(queue.playing, isPlaying)) =>
          \E i \in 1..Len(sent') :
              sent'[i] = Status(PlayState(Pick(queue'.playing, isPlaying')),
                                Pick(queue'.idx, currentIndex'))]_vars

\* the view records among what a step sent
Views(s) == SelectSeq(s, LAMBDA r : r.kind = "view")

\* the armed timeout expired in this step and advanced the index
TimerAdvances ==
    /\ mounted /\ mounted'
    /\ timer.armed
    /\ timer' = NoTimer
    /\ pendingEffects' = pendingEffects
    /\ queue' # queue

\* C18: a next or previous command emits exactly one view record, for the
\* item being left, with skipped true and completed false; a timer advance
\* emits exactly one, for the item being left, with completed true and
\* skipped false.
C18_OneViewRecord ==
    [][/\ (/\ mounted /\ mounted'
            /\ currentItem # NoItem
            /\ (Handles("next") \/ Handles("previous"))) =>
              Views(sent') = <<View(currentItem, FALSE, TRUE)>>
       /\ TimerAdvances => Views(sent') = <<View(timer.item, TRUE, FALSE)>>]_vars

\* C19: the cache holds one playlist per display and every accepted apply
\* overwrites it: a step that applies a playlist leaves that playlist in the
\* cache, nothing but an apply puts a playlist into the cache, and whenever
\* the initialized player finds a playlist in the cache it is the one
\* applied last, which is the held one.
C19_CacheIsLastApplied ==
    [][/\ (mounted /\ mounted' /\ queue'.playlist # {}
            /\ queue'.playlist # queue.playlist) =>
              queue'.playlist = {cache'}
       /\ cache' # cache =>
              \/ cache' = NoPlaylist
              \/ mounted /\ queue'.playlist = {cache'}
       /\ (mounted' /\ hasInitialized' /\ cache' # NoPlaylist) =>
              cache' = Pick(queue'.playlist, playlist')]_vars

C19_Witness ==
    /\ mounted
    /\ initialPlaylist = PlFull
    /\ lastMessage = PlaylistUpdate(PlEdited, ThisDisplay)
    /\ queue.playlist = {PlEdited}
    /\ cache = PlEdited

\* C20: events are applied in the order they arrive: when a display update
\* or a snapshot that assigns a playlist has just been handled and the
\* deferred callback of an earlier playlist update runs next, the held
\* playlist stays the one of the later event.
C20_ArrivalOrder ==
    [][(/\ pageEvent.kind \in {"display_update", "initial_data"}
        /\ deferred' # deferred
        /\ deferred' \subseteq deferred
        /\ pageEvent'.kind # "reload") =>
          page'.playlist = pageEvent.data]_vars

\* C21: a poll response with the id and the item count of the held playlist
\* in which only fields of items differ is applied in place: the held playlist becomes the playlist of the
\* response and no reload is raised by it.
C21_InPlaceUpdate ==
    [][(/\ pageEvent'.kind = "poll"
        /\ pageEvent'.data # NoPlaylist
        /\ page.playlist # NoPlaylist
        /\ pageEvent'.data.id = page.playlist.id
        /\ Len(ItemsOf(pageEvent'.data)) = Len(ItemsOf(page.playlist))
        /\ pageEvent'.data # page.playlist)
          => /\ page'.playlist = pageEvent'.data
             /\ reloadPending' = reloadPending]_vars

\* the index, the playlist and the upcoming item the next render will show
PendingIndex == Pick(queue.idx, currentIndex)
PendingPlaylist == Pick(queue.playlist, playlist)
PendingNext == Pick(queue.next, nextItem)

\* C22: after every index change and every accepted apply the upcoming item
\* is the item at position (index + 1) mod itemCount of the held playlist
\* (stated for playlists of two or more items, where an upcoming item exists).
C22_PreloadIsFollowingItem ==
    [][(/\ mounted /\ mounted'
        /\ \/ PendingIndex' # PendingIndex
           \/ queue'.playlist # {} /\ queue'.playlist # queue.playlist
        /\ Len(ItemsOf(PendingPlaylist')) >= 2) =>
          PendingNext' = At(ItemsOf(PendingPlaylist'),
                            (PendingIndex' + 1) % Len(ItemsOf(PendingPlaylist')))]_vars

\* C23: the dwell timer is never armed with a zero or negative delay: a
\* duration of 0 or less is replaced by a positive floor before the timer
\* is armed.
C23_PositiveDwell == timer.armed => durationMs(timer.item) > 0

SchedulerActions == {"play", "pause", "stop", "restart", "next", "previous", "seek"}

\* C25: reload, refresh_content, clear_cache and any other action without a
\* case leave the scheduler as it is: handling one queues no change of
\* index, item, play status or playlist, sends nothing, and leaves the armed
\* timer alone.
C25_OtherActionsIgnored ==
    [][(/\ mounted /\ mounted'
        /\ \E a \in Actions \ SchedulerActions : Handles(a)) =>
          /\ queue' = queue
          /\ sent' = <<>>
          /\ pendingEffects = {"msg"} => timer' = timer]_vars

C25_Witness ==
    /\ Settled
    /\ lastMessage = Control("clear_cache", 0, ThisDisplay)
    /\ Count = MaxItems
    /\ currentIndex = 1
    /\ currentItem = At(playlist.items, 1)
    /\ isPlaying
    /\ timer.armed
    /\ timer.idx = 1

\* C26: on a low-power device the transition a render uses is never a
\* complex kind (each is replaced by fade) and its duration is the smaller of
\* the requested duration and 0.5 s; on any other device the requested kind
\* and duration are used as they are.
C26_LowPowerTransition ==
    tc.mounted =>
      /\ tc.lowPower =>
            /\ tc.optimizedTransition \notin ComplexTransitions
            /\ tc.optimizedTransition =
                  (IF tc.transition \in ComplexTransitions THEN "fade"
                   ELSE tc.transition)
            /\ timeout(tc).enter = Min(tc.duration, 500)
      /\ ~tc.lowPower =>
            /\ tc.optimizedTransition = tc.transition
            /\ timeout(tc).enter = tc.duration

\* C27: in every state of the mounted player the current item is the item at
\* the current index of the held playlist, or none when there is no such
\* item.
C27_CurrentItemMatchesIndex ==
    mounted => currentItem = At(ItemsOf(playlist), currentIndex)

\* a message, a status change or a new prop has arrived, or the player is gone
Disturbed ==
    \/ ~mounted
    \/ queue.msg # {}
    \/ queue.prop # {}
    \/ queue.ws # {}

\* C28: while the player is playing a playlist of two or more items and
\* nothing arrives, the dwell timer fires and the index advances: from every
\* settled playing state the index eventually leaves its value, unless a
\* message, a status change or a new prop arrives first.
C28_PlaybackAdvances ==
    \A i \in 0..(MaxItems - 1) :
        (Settled /\ isPlaying /\ Count >= 2 /\ currentIndex = i)
            ~> (currentIndex # i \/ Disturbed)

\* C29: a message addressed to another display changes nothing: the flush
\* that runs the message effect on it queues no state update, sends
\* nothing, and leaves the timer, the cache and the initialized flag alone.
C29_ForeignMessageIgnored ==
    [][(/\ mounted /\ mounted'
        /\ pendingEffects = {"msg"}
        /\ pendingEffects' = {}
        /\ lastMessage.to = OtherDisplay) =>
          /\ queue' = queue
          /\ sent' = <<>>
          /\ timer' = timer
          /\ cache' = cache
          /\ hasInitialized' = hasInitialized]_vars

C29_Witness ==
    /\ Settled
    /\ lastMessage = Control("next", 0, OtherDisplay)
    /\ Count = MaxItems
    /\ currentIndex = 1
    /\ isPlaying
    /\ timer.armed
    /\ timer.idx = 1

\* C30: the renderer retries a failed load at most maxRetries times: while
\* no load has succeeded it starts at most maxRetries + 1 loads, the retry
\* count never exceeds maxRetries, and once the failure has been reported
\* through onError no load and no retry is pending and the renderer shows
\* the error state.
C30_BoundedRetries ==
    /\ ~img.isReady => img.attempts <= maxRetries + 1
    /\ img.retryCount <= maxRetries
    /\ (img.reported /\ ~img.isReady) =>
          /\ img.loading = {}
          /\ img.timers = {}
          /\ img.error

\* C31: for every interleaving of preloadImage calls with load completions
\* and failures: at most one load of a URL is under way and it is the one in
\* the in-flight map, which the concurrent callers share; a call for a cached
\* URL starts no load; no URL is both cached and in flight; after a failed
\* load the URL is in neither map; and a call for a URL that is in neither
\* map starts a fresh load.
C31_SharedPreload ==
    /\ \A u \in Urls :
          /\ pre.images[u] <= 1
          /\ pre.images[u] = 1 <=> u \in pre.loadingPromises
          /\ pre.waiting[u] > 0 => u \in pre.loadingPromises
    /\ pre.imageCache \cap pre.loadingPromises = {}
    /\ pre.last.op = "call" =>
          /\ (pre.last.hit \/ pre.last.shared) => ~pre.last.started
          /\ (~pre.last.hit /\ ~pre.last.shared) =>
                pre.last.started /\ pre.last.url \in pre.loadingPromises
    /\ pre.last.op = "failed" =>
          pre.last.url \notin (pre.imageCache \cup pre.loadingPromises)

\* two callers share the load of one URL while another URL is cached and a
\* call for a third URL, in neither map, has just started a load of its own
C31_Witness ==
    /\ \E u \in Urls : pre.waiting[u] >= 2 /\ pre.images[u] = 1
    /\ pre.imageCache # {}
    /\ pre.last.op = "call" /\ pre.last.started
    /\ pre.waiting[pre.last.url] = 1
====
